---- MODULE Spec2Model ----
(***************************************************************************)
(* MuseWrapper: the flat, function-pointer boundary over the Muse SDK.     *)
(* The bridge's globals are the state, every exported entry point and      *)
(* every listener-adapter method is one action, and the SDK is the         *)
(* environment: it keeps the discovery snapshot and the listeners          *)
(* registered with it, delivers events to the adapters, and any of its     *)
(* calls may fail.                                                         *)
(***************************************************************************)
EXTENDS Integers, Sequences, FiniteSets, TLC

\* ------------------------------------------------------------------ bounds
NumDevices == 2          \* devices the SDK can discover
NumCallbacks == 2        \* distinct caller function pointers per slot
MaxValue == 1            \* packet field values range over 0..MaxValue
MaxEvents == 3           \* packets delivered while the log of deliveries is on

\* ------------------------------------------------------ values of the model
NULL == "nullptr"
MANAGER == "MuseManagerWindows"      \* the SDK's singleton instance
Devices == 1..NumDevices
NoMuse == 0                          \* g_currentMuse = nullptr
CallbackPointers == 1..NumCallbacks
NoCallback == 0                      \* a callback slot holding nullptr
Callbacks == {NoCallback} \cup CallbackPointers

\* Muse::get_name() of each device, and a name no device carries.
DeviceName(d) == <<"Muse-A", "Muse-B", "Muse-C", "Muse-D">>[d]
UnknownName == "Muse-X"
EmptyString == ""
CallerNames == {DeviceName(d) : d \in Devices} \cup {UnknownName}

\* Snapshots MuseManager::get_muses() can return: the devices in any order,
\* none of them twice.
IsInjective(s) == \A i, j \in 1..Len(s) : i # j => s[i] # s[j]
Snapshots ==
    {s \in UNION {[1..n -> Devices] : n \in 0..NumDevices} : IsInjective(s)}

\* MuseDataPacketType values the model distinguishes.  GYRO stands for every
\* kind the switch of DataListenerImpl has no case for.
PacketTypes == {"ACCELEROMETER", "BATTERY", "EEG", "GYRO", "ARTIFACTS"}
AccelerometerFields == <<"X", "Y", "Z">>
BatteryFields ==
    <<"CHARGE_PERCENTAGE_REMAINING", "MILLIVOLTS", "TEMPERATURE_CELSIUS">>
EegFields == <<"EEG1", "EEG2", "EEG3", "EEG4", "AUX_LEFT", "AUX_RIGHT">>
GyroFields == <<"X", "Y", "Z">>
Range(s) == {s[i] : i \in 1..Len(s)}
FieldsOf(type) ==
    CASE type = "ACCELEROMETER" -> Range(AccelerometerFields)
      [] type = "BATTERY" -> Range(BatteryFields)
      [] type = "EEG" -> Range(EegFields)
      [] type = "GYRO" -> Range(GyroFields)
      [] OTHER -> {}
Values == 0..MaxValue
\* A MuseDataPacket: its kind and the value each accessor returns.
DataPackets ==
    UNION {{[type |-> t, val |-> v] : v \in [FieldsOf(t) -> Values]} :
              t \in PacketTypes}
\* A MuseArtifactPacket.
ArtifactPackets == [headband_on : BOOLEAN, blink : BOOLEAN, jaw_clench : BOOLEAN]

\* MuseConnectionPacket::current_connection_state values the model uses
\* (ConnectionState ordinals are passed through, never interpreted).
ConnectionStates == {"CONNECTED", "DISCONNECTED"}

\* --------------------------------------------------------------- SDK faults
\* Which SDK call of the running entry point fails, and how: it throws a
\* std::exception, throws some other object, or (get_instance) returns null.
NoFault == [at |-> "none", how |-> "none"]
Faults(calls) ==
    {NoFault} \cup [at : calls, how : {"std", "other"}]
Throws(fault, call) == fault.at = call /\ fault.how \in {"std", "other"}
\* A fault is one of a call the execution makes: it names one of its SDK calls.
FaultReached(fault, sdkCalls) ==
    fault = NoFault \/ \E i \in 1..Len(sdkCalls) : sdkCalls[i][1] = fault.at

VARIABLES
    g_manager,                          \* MuseWrapper.cpp:15
    g_museListChangedCallback,          \* MuseWrapper.cpp:23
    g_connectionStateChangedCallback,   \* MuseWrapper.cpp:24
    g_dataReceivedCallback,             \* MuseWrapper.cpp:25
    g_currentMuse,                      \* MuseWrapper.cpp:28
    g_listener,                         \* MuseWrapper.cpp:114 (TRUE = non-null)
    g_connectionListener,               \* MuseWrapper.cpp:115
    g_dataListener,                     \* MuseWrapper.cpp:116
    sdkMuseListener,     \* SDK: the manager holds the list-changed adapter
    sdkListening,        \* SDK: discovery is running
    muses,               \* SDK: the snapshot get_muses() returns
    sdkConnectionListeners, \* SDK: devices holding the connection adapter
    sdkDataListeners,    \* SDK: per device, the kinds the data adapter is registered for
    running,             \* devices with a dispatched, not yet disconnected attempt
    last,                \* the last call or event: what it returned and did
    threads,             \* where each thread stands inside the call it is running
    history              \* the packets delivered to the adapters and the calls they made

session == <<g_manager, g_currentMuse, g_listener, g_connectionListener,
             g_dataListener>>
slots == <<g_museListChangedCallback, g_connectionStateChangedCallback,
           g_dataReceivedCallback>>
sdk == <<sdkMuseListener, sdkListening, muses, sdkConnectionListeners,
         sdkDataListeners, running>>
vars == <<g_manager, g_museListChangedCallback, g_connectionStateChangedCallback,
          g_dataReceivedCallback, g_currentMuse, g_listener, g_connectionListener,
          g_dataListener, sdkMuseListener, sdkListening, muses,
          sdkConnectionListeners, sdkDataListeners, running, last, threads,
          history>>

\* The record of one call: entry point or adapter method, its argument, its
\* result, the SDK calls it made in order, the caller callbacks it invoked.
Call(op, arg, ret, sdkCalls, invoked) ==
    [op |-> op, arg |-> arg, ret |-> ret, sdk |-> sdkCalls, cbs |-> invoked,
     escaped |-> FALSE]
\* One SDK call: the method, the object it is called on, how it ended.
SdkCall(name, target) == <<name, target, "ok">>
\* The log of an execution whose last SDK call failed.
Fail(sdkCalls, fault) ==
    [sdkCalls EXCEPT ![Len(sdkCalls)][3] = IF fault.how = "null" THEN "null" ELSE "threw"]
OnManager == 0

\* A thread outside any call of the bridge, and the threads there are: the
\* SDK's delivery thread and one caller thread each for ConnectToMuse,
\* DisconnectMuse and StopMuseManager.
Idle == [pc |-> "idle", seen |-> 0, target |-> 0]
AllIdle == [delivery |-> Idle, connect |-> Idle, disconnect |-> Idle, stop |-> Idle]

\* The log of deliveries, kept while it is switched on: each packet handed to
\* an adapter with the pointer its slot held, and the callback calls made.
NoHistory == [on |-> FALSE, delivered |-> <<>>, invoked |-> <<>>]
Recorded(log, call, pointer) ==
    IF log.on
    THEN [log EXCEPT !.delivered = Append(@, [op |-> call.op, arg |-> call.arg,
                                              sdk |-> call.sdk, ptr |-> pointer]),
                     !.invoked = @ \o call.cbs]
    ELSE log

\* Entry points whose handlers take std::exception and nothing else.
HandlersStdOnly(op) == {"std"}

\* What the catch clauses around the body of op take.  Every exported entry
\* point ends in catch (...), which takes any object thrown; the listener
\* adapters have no try block at all.
Handlers(op) ==
    IF op \in {"muse_list_changed", "receive_muse_connection_packet",
               "receive_muse_data_packet", "receive_muse_artifact_packet"}
    THEN {}
    ELSE {"std", "other"}

\* The record of a call whose last SDK call failed: a null result or an object
\* a handler takes gives the caller the value returned on that path, anything
\* else leaves the call as a throw.
Thrown(op, arg, ret, sdkCalls, fault) ==
    LET caught == fault.how = "null" \/ fault.how \in Handlers(op)
    IN [op |-> op, arg |-> arg, ret |-> IF caught THEN ret ELSE "threw",
        sdk |-> Fail(sdkCalls, fault), cbs |-> <<>>, escaped |-> ~caught]

Init ==
    /\ g_manager = NULL
    /\ g_museListChangedCallback = NoCallback
    /\ g_connectionStateChangedCallback = NoCallback
    /\ g_dataReceivedCallback = NoCallback
    /\ g_currentMuse = NoMuse
    /\ g_listener = FALSE
    /\ g_connectionListener = FALSE
    /\ g_dataListener = FALSE
    /\ sdkMuseListener = FALSE
    /\ sdkListening = FALSE
    /\ muses = <<>>
    /\ sdkConnectionListeners = {}
    /\ sdkDataListeners = [d \in Devices |-> {}]
    /\ running = {}
    /\ last = Call("load", "", "void", <<>>, <<>>)
    /\ threads = AllIdle
    /\ history = NoHistory

\* ------------------------------------------------------------- GetMuseManager
\* An initialize that never takes the early return.
NeverInitialized(manager) == FALSE

\* if (g_manager): the early return of an already initialized bridge.
AlreadyInitialized(manager) == manager # NULL

GetMuseManager(fault) ==
    /\ UNCHANGED <<threads, history>>
    /\ fault \in Faults({"get_instance", "set_muse_listener"})
                     \cup {[at |-> "get_instance", how |-> "null"]}
    /\ UNCHANGED <<slots, g_currentMuse, g_connectionListener, g_dataListener,
                   sdkListening, muses, sdkConnectionListeners, sdkDataListeners,
                   running>>
    /\ IF AlreadyInitialized(g_manager)
       THEN \* already initialized
            /\ last' = Call("GetMuseManager", "", g_manager, <<>>, <<>>)
            /\ UNCHANGED <<g_manager, g_listener, sdkMuseListener>>
       ELSE IF fault.at = "get_instance"
       THEN \* null result, or a throw before g_manager is assigned
            /\ g_manager' = NULL
            /\ last' = Thrown("GetMuseManager", "", NULL,
                              <<SdkCall("get_instance", OnManager)>>, fault)
            /\ UNCHANGED <<g_listener, sdkMuseListener>>
       ELSE IF Throws(fault, "set_muse_listener")
       THEN \* only the inner handler, for std::exception, resets g_manager
            /\ g_manager' = IF fault.how = "std" THEN NULL ELSE MANAGER
            /\ g_listener' = TRUE
            /\ last' = Thrown("GetMuseManager", "", NULL,
                              <<SdkCall("get_instance", OnManager),
                                SdkCall("set_muse_listener", OnManager)>>, fault)
            /\ UNCHANGED sdkMuseListener
       ELSE /\ g_manager' = MANAGER
            /\ g_listener' = TRUE
            /\ sdkMuseListener' = TRUE
            /\ last' = Call("GetMuseManager", "", MANAGER,
                            <<SdkCall("get_instance", OnManager),
                              SdkCall("set_muse_listener", OnManager)>>, <<>>)
    /\ FaultReached(fault, last'.sdk)

\* ------------------------------------------------------------- StartListening
\* A start that returns at once when discovery is already running.
StartListeningOnce(fault) ==
    /\ UNCHANGED <<threads, history>>
    /\ fault \in Faults({"start_listening"})
    /\ UNCHANGED <<session, slots, sdkMuseListener, muses, sdkConnectionListeners,
                   sdkDataListeners, running>>
    /\ IF g_manager = NULL
       THEN /\ last' = Call("StartListening", "", FALSE, <<>>, <<>>)
            /\ UNCHANGED sdkListening
       ELSE IF sdkListening
       THEN /\ last' = Call("StartListening", "", TRUE, <<>>, <<>>)
            /\ UNCHANGED sdkListening
       ELSE IF Throws(fault, "start_listening")
       THEN /\ last' = Thrown("StartListening", "", FALSE,
                              <<SdkCall("start_listening", OnManager)>>, fault)
            /\ UNCHANGED sdkListening
       ELSE /\ sdkListening' = TRUE
            /\ last' = Call("StartListening", "", TRUE,
                            <<SdkCall("start_listening", OnManager)>>, <<>>)
    /\ FaultReached(fault, last'.sdk)

StartListening(fault) ==
    /\ UNCHANGED <<threads, history>>
    /\ fault \in Faults({"start_listening"})
    /\ UNCHANGED <<session, slots, sdkMuseListener, muses, sdkConnectionListeners,
                   sdkDataListeners, running>>
    /\ IF g_manager = NULL
       THEN /\ last' = Call("StartListening", "", FALSE, <<>>, <<>>)
            /\ UNCHANGED sdkListening
       ELSE IF Throws(fault, "start_listening")
       THEN /\ last' = Thrown("StartListening", "", FALSE,
                              <<SdkCall("start_listening", OnManager)>>, fault)
            /\ UNCHANGED sdkListening
       ELSE /\ sdkListening' = TRUE
            /\ last' = Call("StartListening", "", TRUE,
                            <<SdkCall("start_listening", OnManager)>>, <<>>)
    /\ FaultReached(fault, last'.sdk)

\* -------------------------------------------------------------- StopListening
StopListening(fault) ==
    /\ UNCHANGED <<threads, history>>
    /\ fault \in Faults({"stop_listening"})
    /\ UNCHANGED <<session, slots, sdkMuseListener, muses, sdkConnectionListeners,
                   sdkDataListeners, running>>
    /\ IF g_manager = NULL
       THEN /\ last' = Call("StopListening", "", "void", <<>>, <<>>)
            /\ UNCHANGED sdkListening
       ELSE IF Throws(fault, "stop_listening")
       THEN /\ last' = Thrown("StopListening", "", "void",
                              <<SdkCall("stop_listening", OnManager)>>, fault)
            /\ UNCHANGED sdkListening
       ELSE /\ sdkListening' = FALSE
            /\ last' = Call("StopListening", "", "void",
                            <<SdkCall("stop_listening", OnManager)>>, <<>>)
    /\ FaultReached(fault, last'.sdk)

\* --------------------------------------------------------------- GetMuseCount
\* A count that asks the SDK without testing g_manager first.
GetMuseCountUnguarded(fault) ==
    /\ UNCHANGED <<threads, history>>
    /\ fault \in Faults({"get_muses"})
    /\ UNCHANGED <<session, slots, sdk>>
    /\ last' = Call("GetMuseCount", "", Len(muses),
                    <<SdkCall("get_muses", OnManager)>>, <<>>)

GetMuseCount(fault) ==
    /\ UNCHANGED <<threads, history>>
    /\ fault \in Faults({"get_muses"})
    /\ UNCHANGED <<session, slots, sdk>>
    /\ IF g_manager = NULL
       THEN last' = Call("GetMuseCount", "", 0, <<>>, <<>>)
       ELSE IF Throws(fault, "get_muses")
       THEN last' = Thrown("GetMuseCount", "", 0,
                           <<SdkCall("get_muses", OnManager)>>, fault)
       ELSE last' = Call("GetMuseCount", "", Len(muses),
                         <<SdkCall("get_muses", OnManager)>>, <<>>)
    /\ FaultReached(fault, last'.sdk)

\* ---------------------------------------------------------------- GetMuseName
\* A bounds check that is off by one at the upper end.
OutOfRangeOffByOne(index, size) == index < 0 \/ index >= size - 1

\* index < 0 || index >= muses.size(): the int is compared as a size_t only
\* after the sign test, so the conversion never changes its value.
OutOfRange(index, size) == index < 0 \/ index >= size

\* muses[index]: the vector is 0-based, the sequence 1-based.
MuseAt(snapshot, index) == snapshot[index + 1]

GetMuseName(index, fault) ==
    /\ UNCHANGED <<threads, history>>
    /\ fault \in Faults({"get_muses", "get_name"})
    /\ UNCHANGED <<session, slots, sdk>>
    /\ IF g_manager = NULL
       THEN last' = Call("GetMuseName", index, EmptyString, <<>>, <<>>)
       ELSE IF Throws(fault, "get_muses")
       THEN last' = Thrown("GetMuseName", index, EmptyString,
                           <<SdkCall("get_muses", OnManager)>>, fault)
       ELSE IF OutOfRange(index, Len(muses))
       THEN last' = Call("GetMuseName", index, EmptyString,
                         <<SdkCall("get_muses", OnManager)>>, <<>>)
       ELSE IF Throws(fault, "get_name")
       THEN last' = Thrown("GetMuseName", index, EmptyString,
                           <<SdkCall("get_muses", OnManager),
                             SdkCall("get_name", MuseAt(muses, index))>>, fault)
       ELSE last' = Call("GetMuseName", index, DeviceName(MuseAt(muses, index)),
                         <<SdkCall("get_muses", OnManager),
                           SdkCall("get_name", MuseAt(muses, index))>>, <<>>)
    /\ FaultReached(fault, last'.sdk)

\* -------------------------------------------------------------- ConnectToMuse
\* for (auto muse : muses) if (muse->get_name() == name): the position of the
\* first device whose name equals name, 0 when the loop finds none.
RECURSIVE ScanFrom(_, _, _)
ScanFrom(snapshot, name, i) ==
    IF i > Len(snapshot) THEN 0
    ELSE IF DeviceName(snapshot[i]) = name THEN i
    ELSE ScanFrom(snapshot, name, i + 1)

\* A scan that takes the first device whatever its name.
FirstDevice(snapshot, name) == IF Len(snapshot) > 0 THEN 1 ELSE 0

FindMuse(snapshot, name) == ScanFrom(snapshot, name, 1)

\* The get_name() calls of the scan, one per device visited.
NameCalls(snapshot, visited) ==
    [k \in 1..visited |-> SdkCall("get_name", snapshot[k])]

\* if (g_currentMuse) g_currentMuse->disconnect(): the SDK calls it makes.
DisconnectPrevious(current) ==
    IF current # NoMuse THEN <<SdkCall("disconnect", current)>> ELSE <<>>

\* Muse::disconnect() ends the attempt dispatched on the device.
Disconnected(active, muse) == active \ {muse}

\* A connect that leaves the previous device alone.
KeepPrevious(current) == NoMuse

\* The device ConnectToMuse disconnects before it attaches to the match:
\* g_currentMuse, when there is one.
PreviousMuse(current) == current

\* A connect that registers no adapter on the device.
AttachNothing(muse) == <<>>

\* // Register listeners: the one registration ConnectToMuse makes on the match.
AttachListeners(muse) == <<SdkCall("register_connection_listener", muse)>>

ConnectToMuse(name, fault) ==
    /\ UNCHANGED <<threads, history>>
    /\ fault \in Faults({"get_muses", "get_name", "disconnect",
                         "register_connection_listener", "run_asynchronously"})
    /\ UNCHANGED <<slots, g_manager, g_listener, sdkMuseListener, sdkListening,
                   muses, sdkDataListeners>>
    /\ LET found == FindMuse(muses, name)
           muse == muses[found]
           scan == <<SdkCall("get_muses", OnManager)>>
                     \o NameCalls(muses, IF found = 0 THEN Len(muses) ELSE found)
           previous == PreviousMuse(g_currentMuse)
           teardown == scan \o DisconnectPrevious(previous)
           attach == teardown \o AttachListeners(muse)
           dispatch == attach \o <<SdkCall("run_asynchronously", muse)>>
           Failed(sdkCalls) ==
               last' = Thrown("ConnectToMuse", name, FALSE,
                              sdkCalls, fault)
           NotFound(sdkCalls) ==
               last' = Call("ConnectToMuse", name, FALSE, sdkCalls, <<>>)
       IN
       IF g_manager = NULL
       THEN /\ NotFound(<<>>)
            /\ UNCHANGED <<g_currentMuse, g_connectionListener, g_dataListener,
                           sdkConnectionListeners, running>>
       ELSE IF Throws(fault, "get_muses")
       THEN /\ Failed(<<SdkCall("get_muses", OnManager)>>)
            /\ UNCHANGED <<g_currentMuse, g_connectionListener, g_dataListener,
                           sdkConnectionListeners, running>>
       ELSE IF Throws(fault, "get_name") /\ Len(muses) > 0
       THEN /\ Failed(<<SdkCall("get_muses", OnManager)>> \o NameCalls(muses, 1))
            /\ UNCHANGED <<g_currentMuse, g_connectionListener, g_dataListener,
                           sdkConnectionListeners, running>>
       ELSE IF found = 0
       THEN /\ NotFound(scan)
            /\ UNCHANGED <<g_currentMuse, g_connectionListener, g_dataListener,
                           sdkConnectionListeners, running>>
       ELSE IF previous # NoMuse /\ Throws(fault, "disconnect")
       THEN /\ Failed(teardown)
            /\ UNCHANGED <<g_currentMuse, g_connectionListener, g_dataListener,
                           sdkConnectionListeners, running>>
       ELSE /\ g_connectionListener' = TRUE
            /\ g_dataListener' = TRUE
            /\ IF Throws(fault, "register_connection_listener")
               THEN /\ Failed(attach)
                    /\ running' = Disconnected(running, previous)
                    /\ UNCHANGED <<g_currentMuse, sdkConnectionListeners>>
               ELSE /\ sdkConnectionListeners' = sdkConnectionListeners \cup {muse}
                    /\ g_currentMuse' = muse
                    /\ IF Throws(fault, "run_asynchronously")
                       THEN /\ Failed(dispatch)
                            /\ running' = Disconnected(running, previous)
                       ELSE /\ last' = Call("ConnectToMuse", name, TRUE, dispatch, <<>>)
                            /\ running' = (Disconnected(running, previous)) \cup {muse}
    /\ FaultReached(fault, last'.sdk)

\* ------------------------------------------------------------- DisconnectMuse
DisconnectMuse(fault) ==
    /\ UNCHANGED <<threads, history>>
    /\ fault \in Faults({"disconnect"})
    /\ UNCHANGED <<slots, g_manager, g_listener, g_connectionListener,
                   g_dataListener, sdkMuseListener, sdkListening, muses,
                   sdkConnectionListeners, sdkDataListeners>>
    /\ IF g_currentMuse = NoMuse
       THEN /\ last' = Call("DisconnectMuse", "", "void", <<>>, <<>>)
            /\ UNCHANGED <<g_currentMuse, running>>
       ELSE IF Throws(fault, "disconnect")
       THEN \* the throw skips g_currentMuse = nullptr
            /\ last' = Thrown("DisconnectMuse", "", "void",
                              <<SdkCall("disconnect", g_currentMuse)>>, fault)
            /\ UNCHANGED <<g_currentMuse, running>>
       ELSE /\ running' = Disconnected(running, g_currentMuse)
            /\ g_currentMuse' = NoMuse
            /\ last' = Call("DisconnectMuse", "", "void",
                            <<SdkCall("disconnect", g_currentMuse)>>, <<>>)
    /\ FaultReached(fault, last'.sdk)

\* ------------------------------------- RegisterDataListener / Unregister...
\* A guard that tests the data adapter alone.
NoDataListener(current, dataListener) == ~dataListener

\* if (!g_currentMuse || !g_dataListener) return false;
NoDataTarget(current, dataListener) == current = NoMuse \/ ~dataListener

RegisterDataListener(packetType, fault) ==
    /\ UNCHANGED <<threads, history>>
    /\ fault \in Faults({"register_data_listener"})
    /\ UNCHANGED <<session, slots, sdkMuseListener, sdkListening, muses,
                   sdkConnectionListeners, running>>
    /\ IF NoDataTarget(g_currentMuse, g_dataListener)
       THEN /\ last' = Call("RegisterDataListener", packetType, FALSE, <<>>, <<>>)
            /\ UNCHANGED sdkDataListeners
       ELSE IF Throws(fault, "register_data_listener")
       THEN /\ last' = Thrown("RegisterDataListener", packetType, FALSE,
                              <<SdkCall("register_data_listener", g_currentMuse)>>, fault)
            /\ UNCHANGED sdkDataListeners
       ELSE /\ sdkDataListeners' =
                  [sdkDataListeners EXCEPT ![g_currentMuse] = @ \cup {packetType}]
            /\ last' = Call("RegisterDataListener", packetType, TRUE,
                            <<SdkCall("register_data_listener", g_currentMuse)>>, <<>>)
    /\ FaultReached(fault, last'.sdk)

UnregisterDataListener(packetType, fault) ==
    /\ UNCHANGED <<threads, history>>
    /\ fault \in Faults({"unregister_data_listener"})
    /\ UNCHANGED <<session, slots, sdkMuseListener, sdkListening, muses,
                   sdkConnectionListeners, running>>
    /\ IF NoDataTarget(g_currentMuse, g_dataListener)
       THEN /\ last' = Call("UnregisterDataListener", packetType, FALSE, <<>>, <<>>)
            /\ UNCHANGED sdkDataListeners
       ELSE IF Throws(fault, "unregister_data_listener")
       THEN /\ last' = Thrown("UnregisterDataListener", packetType, FALSE,
                              <<SdkCall("unregister_data_listener", g_currentMuse)>>, fault)
            /\ UNCHANGED sdkDataListeners
       ELSE /\ sdkDataListeners' =
                  [sdkDataListeners EXCEPT ![g_currentMuse] = @ \ {packetType}]
            /\ last' = Call("UnregisterDataListener", packetType, TRUE,
                            <<SdkCall("unregister_data_listener", g_currentMuse)>>, <<>>)
    /\ FaultReached(fault, last'.sdk)

\* ------------------------------------------------------------ Set*Callback
\* A slot that keeps the first pointer registered.
KeepFirst(old, callback) == IF old # NoCallback THEN old ELSE callback

\* The value a slot holds after set(callback): the new pointer replaces the old.
Store(old, callback) == callback

SetMuseListChangedCallback(callback) ==
    /\ UNCHANGED <<threads, history>>
    /\ callback \in Callbacks
    /\ g_museListChangedCallback' = Store(g_museListChangedCallback, callback)
    /\ last' = Call("SetMuseListChangedCallback", callback, "void", <<>>, <<>>)
    /\ UNCHANGED <<session, sdk, g_connectionStateChangedCallback,
                   g_dataReceivedCallback>>

SetConnectionStateChangedCallback(callback) ==
    /\ UNCHANGED <<threads, history>>
    /\ callback \in Callbacks
    /\ g_connectionStateChangedCallback' =
          Store(g_connectionStateChangedCallback, callback)
    /\ last' = Call("SetConnectionStateChangedCallback", callback, "void", <<>>, <<>>)
    /\ UNCHANGED <<session, sdk, g_museListChangedCallback, g_dataReceivedCallback>>

SetDataReceivedCallback(callback) ==
    /\ UNCHANGED <<threads, history>>
    /\ callback \in Callbacks
    /\ g_dataReceivedCallback' = Store(g_dataReceivedCallback, callback)
    /\ last' = Call("SetDataReceivedCallback", callback, "void", <<>>, <<>>)
    /\ UNCHANGED <<session, sdk, g_museListChangedCallback,
                   g_connectionStateChangedCallback>>

\* ------------------------------------------------------------ StopMuseManager
\* A shutdown that releases the adapters and the manager before it disconnects.
StopMuseManagerAdaptersFirst(fault) ==
    /\ UNCHANGED <<threads, history>>
    /\ fault \in Faults({"disconnect", "stop_listening"})
    /\ UNCHANGED <<sdkMuseListener, muses, sdkConnectionListeners, sdkDataListeners,
                   slots, sdkListening>>
    /\ g_listener' = FALSE
    /\ g_connectionListener' = FALSE
    /\ g_dataListener' = FALSE
    /\ g_manager' = NULL
    /\ IF g_currentMuse # NoMuse /\ Throws(fault, "disconnect")
       THEN /\ last' = Thrown("StopMuseManager", "", "void",
                              DisconnectPrevious(g_currentMuse), fault)
            /\ UNCHANGED <<g_currentMuse, running>>
       ELSE /\ last' = Call("StopMuseManager", "", "void",
                            DisconnectPrevious(g_currentMuse), <<>>)
            /\ g_currentMuse' = NoMuse
            /\ running' = Disconnected(running, g_currentMuse)
    /\ FaultReached(fault, last'.sdk)

StopMuseManager(fault) ==
    /\ UNCHANGED <<threads, history>>
    /\ fault \in Faults({"disconnect", "stop_listening"})
    /\ UNCHANGED <<sdkMuseListener, muses, sdkConnectionListeners, sdkDataListeners>>
    /\ LET teardown == DisconnectPrevious(g_currentMuse)
           stop == IF g_manager # NULL
                   THEN <<SdkCall("stop_listening", OnManager)>> ELSE <<>>
       IN
       IF g_currentMuse # NoMuse /\ Throws(fault, "disconnect")
       THEN \* the handler is entered before anything is cleared
            /\ last' = Thrown("StopMuseManager", "", "void",
                              teardown, fault)
            /\ UNCHANGED <<session, slots, sdkListening, running>>
       ELSE /\ g_currentMuse' = NoMuse
            /\ running' = Disconnected(running, g_currentMuse)
            /\ IF g_manager # NULL /\ Throws(fault, "stop_listening")
               THEN /\ last' = Thrown("StopMuseManager", "", "void",
                                      teardown \o stop, fault)
                    /\ UNCHANGED <<slots, g_manager, g_listener, g_connectionListener,
                                   g_dataListener, sdkListening>>
               ELSE /\ last' = Call("StopMuseManager", "", "void", teardown \o stop, <<>>)
                    /\ sdkListening' = IF g_manager # NULL THEN FALSE ELSE sdkListening
                    /\ g_museListChangedCallback' = NoCallback
                    /\ g_connectionStateChangedCallback' = NoCallback
                    /\ g_dataReceivedCallback' = NoCallback
                    /\ g_listener' = FALSE
                    /\ g_connectionListener' = FALSE
                    /\ g_dataListener' = FALSE
                    /\ g_manager' = NULL
    /\ FaultReached(fault, last'.sdk)

\* ------------------------------------------------------------ Data Marshaler
BufferLength == 6
\* double dataBuffer[6] = { 0.0, ... }: position p of the array is element p + 1.
ZeroBuffer == [i \in 1..BufferLength |-> 0]
Slot(buffer, position) == buffer[position + 1]

\* packet->get_accelerometer_value(axis) and its siblings.
get_accelerometer_value(packet, axis) == packet.val[axis]
get_battery_value(packet, field) == packet.val[field]
get_eeg_channel_value(packet, channel) == packet.val[channel]

\* A switch whose accelerometer case writes Y before X.
MarshalDataSwapped(packet) ==
    IF packet.type = "ACCELEROMETER"
    THEN [ZeroBuffer EXCEPT ![1] = get_accelerometer_value(packet, "Y"),
                            ![2] = get_accelerometer_value(packet, "X"),
                            ![3] = get_accelerometer_value(packet, "Z")]
    ELSE ZeroBuffer

\* The switch of receive_muse_data_packet.
MarshalData(packet) ==
    CASE packet.type = "ACCELEROMETER" ->
           [ZeroBuffer EXCEPT ![1] = get_accelerometer_value(packet, "X"),
                              ![2] = get_accelerometer_value(packet, "Y"),
                              ![3] = get_accelerometer_value(packet, "Z")]
      [] packet.type = "BATTERY" ->
           [ZeroBuffer EXCEPT
              ![1] = get_battery_value(packet, "CHARGE_PERCENTAGE_REMAINING"),
              ![2] = get_battery_value(packet, "MILLIVOLTS"),
              ![3] = get_battery_value(packet, "TEMPERATURE_CELSIUS")]
      [] packet.type = "EEG" ->
           [ZeroBuffer EXCEPT ![1] = get_eeg_channel_value(packet, "EEG1"),
                              ![2] = get_eeg_channel_value(packet, "EEG2"),
                              ![3] = get_eeg_channel_value(packet, "EEG3"),
                              ![4] = get_eeg_channel_value(packet, "EEG4"),
                              ![5] = get_eeg_channel_value(packet, "AUX_LEFT"),
                              ![6] = get_eeg_channel_value(packet, "AUX_RIGHT")]
      [] OTHER -> ZeroBuffer

\* packet.headband_on ? 1.0 : 0.0
Flag(b) == IF b THEN 1 ELSE 0

\* The body of receive_muse_artifact_packet.
MarshalArtifact(packet) ==
    [ZeroBuffer EXCEPT ![1] = Flag(packet.headband_on),
                       ![2] = Flag(packet.blink),
                       ![3] = Flag(packet.jaw_clench)]

\* ---------------------------------------------------------- Listener adapters
\* One call through a callback slot: which slot, the pointer called, the arguments.
Invocation(slot, pointer, args) == [slot |-> slot, ptr |-> pointer, args |-> args]

\* An adapter that calls twice through a slot that is set.
InvokeTwice(slot, pointer, args) ==
    IF pointer # NoCallback
    THEN <<Invocation(slot, pointer, args), Invocation(slot, pointer, args)>>
    ELSE <<>>

\* if (slot) slot(args...): the invocations an adapter makes through a slot.
InvokeIfSet(slot, pointer, args) ==
    IF pointer # NoCallback THEN <<Invocation(slot, pointer, args)>> ELSE <<>>

\* MuseListenerImpl::muse_list_changed, called by the SDK on its own thread.
muse_list_changed(fault) ==
    /\ UNCHANGED <<threads, history>>
    /\ fault \in Faults({"get_muses"})
    /\ UNCHANGED <<session, slots, sdkMuseListener, sdkListening,
                   sdkConnectionListeners, sdkDataListeners, running>>
    /\ IF g_manager = NULL
       THEN last' = Call("muse_list_changed", "", "returned", <<>>, <<>>)
       ELSE IF Throws(fault, "get_muses")
       THEN last' = Thrown("muse_list_changed", "", "threw",
                           <<SdkCall("get_muses", OnManager)>>, fault)
       ELSE last' = Call("muse_list_changed", "", "returned",
                         <<SdkCall("get_muses", OnManager)>>,
                         InvokeIfSet("list", g_museListChangedCallback, <<>>))
    /\ FaultReached(fault, last'.sdk)

\* ConnectionListenerImpl::receive_muse_connection_packet
receive_muse_connection_packet(state, muse, fault) ==
    /\ UNCHANGED threads
    /\ fault \in Faults({"get_name"})
    /\ UNCHANGED <<session, slots, sdk>>
    /\ IF Throws(fault, "get_name")
       THEN last' = Thrown("receive_muse_connection_packet", <<state, muse>>, "threw",
                           <<SdkCall("get_name", muse)>>, fault)
       ELSE last' = Call("receive_muse_connection_packet", <<state, muse>>, "returned",
                         <<SdkCall("get_name", muse)>>,
                         InvokeIfSet("connection", g_connectionStateChangedCallback,
                                     <<state, DeviceName(muse)>>))
    /\ FaultReached(fault, last'.sdk)
    /\ history' = Recorded(history, last', g_connectionStateChangedCallback)

\* DataListenerImpl::receive_muse_data_packet
receive_muse_data_packet(packet, muse, fault) ==
    /\ UNCHANGED threads
    /\ fault \in Faults({"get_value"})
    /\ UNCHANGED <<session, slots, sdk>>
    /\ IF g_dataReceivedCallback = NoCallback
       THEN last' = Call("receive_muse_data_packet", <<packet, muse>>, "returned",
                         <<>>, <<>>)
       ELSE IF Throws(fault, "get_value")
                 /\ packet.type \in {"ACCELEROMETER", "BATTERY", "EEG"}
       THEN last' = Thrown("receive_muse_data_packet", <<packet, muse>>, "threw",
                           <<SdkCall("get_value", muse)>>, fault)
       ELSE last' = Call("receive_muse_data_packet", <<packet, muse>>, "returned", <<>>,
                         <<Invocation("data", g_dataReceivedCallback,
                                      <<packet.type, MarshalData(packet),
                                        BufferLength>>)>>)
    /\ FaultReached(fault, last'.sdk)
    /\ history' = Recorded(history, last', g_dataReceivedCallback)

\* DataListenerImpl::receive_muse_artifact_packet
receive_muse_artifact_packet(packet, muse) ==
    /\ UNCHANGED threads
    /\ UNCHANGED <<session, slots, sdk>>
    /\ IF g_dataReceivedCallback = NoCallback
       THEN last' = Call("receive_muse_artifact_packet", <<packet, muse>>, "returned",
                         <<>>, <<>>)
       ELSE last' = Call("receive_muse_artifact_packet", <<packet, muse>>, "returned",
                         <<>>,
                         <<Invocation("data", g_dataReceivedCallback,
                                      <<"ARTIFACTS", MarshalArtifact(packet),
                                        BufferLength>>)>>)
    /\ history' = Recorded(history, last', g_dataReceivedCallback)

\* ------------------------------------------- the adapters, read by read
\* The adapters run on the SDK's delivery thread while the caller's thread
\* runs the setters and StopMuseManager; the slots are plain globals.  Each
\* adapter reads its slot once to test it and once more to call through it.
SlotNames == {"list", "connection", "data"}

SlotValue(slot) ==
    CASE slot = "list" -> g_museListChangedCallback
      [] slot = "connection" -> g_connectionStateChangedCallback
      [] slot = "data" -> g_dataReceivedCallback

AdapterOf(slot) ==
    CASE slot = "list" -> "muse_list_changed"
      [] slot = "connection" -> "receive_muse_connection_packet"
      [] slot = "data" -> "receive_muse_data_packet"

At(thread, pc, seen, target) ==
    [threads EXCEPT ![thread] = [pc |-> pc, seen |-> seen, target |-> target]]

\* if (slot): the test; an empty slot ends the adapter method.
AdapterTestsSlot(slot) ==
    /\ threads.delivery.pc = "idle"
    /\ IF SlotValue(slot) = NoCallback
       THEN /\ last' = Call(AdapterOf(slot), slot, "returned", <<>>, <<>>)
            /\ UNCHANGED threads
       ELSE /\ threads' = At("delivery", "tested", SlotValue(slot), slot)
            /\ UNCHANGED last
    /\ UNCHANGED <<session, slots, sdk, history>>

\* slot(args...): the call.  The slot is read without synchronization, so
\* the pointer called is the one tested (kept in a register) or the one the
\* slot holds now (loaded again); a null one ends the process.
AdapterCallsSlot(pointer) ==
    /\ threads.delivery.pc = "tested"
    /\ pointer \in {threads.delivery.seen, SlotValue(threads.delivery.target)}
    /\ last' = Call(AdapterOf(threads.delivery.target), threads.delivery.target,
                    IF pointer = NoCallback THEN "null call" ELSE "returned", <<>>,
                    <<Invocation(threads.delivery.target, pointer, <<>>)>>)
    /\ threads' = [threads EXCEPT !.delivery = Idle]
    /\ UNCHANGED <<session, slots, sdk, history>>

\* ------------------------------------- the session calls, read by read
\* ConnectToMuse, DisconnectMuse and StopMuseManager each on a thread of its
\* own, one read or write of g_currentMuse or one SDK call at a time, the SDK
\* not failing.  g_currentMuse is a plain global: a call made through it
\* lands on the device the thread last saw there (kept in a register) or on
\* the one it holds now (loaded again), and ends the process when that is null.
CallerThreads == {"connect", "disconnect", "stop"}
Alive == \A t \in CallerThreads : threads[t].pc # "fault"
Dereferenced(seen) == {seen, g_currentMuse}
Step(thread, pc) == At(thread, pc, threads[thread].seen, threads[thread].target)

\* if (!g_manager) return false; get_muses(); the scan for the name.
ConnectScans(name) ==
    /\ Alive
    /\ threads.connect.pc = "idle"
    /\ IF g_manager = NULL \/ FindMuse(muses, name) = 0
       THEN /\ last' = Call("ConnectToMuse", name, FALSE, <<>>, <<>>)
            /\ UNCHANGED threads
       ELSE /\ threads' = At("connect", "test", NoMuse, muses[FindMuse(muses, name)])
            /\ UNCHANGED last
    /\ UNCHANGED <<session, slots, sdk, history>>

\* if (g_currentMuse)
ConnectTests ==
    /\ Alive
    /\ threads.connect.pc = "test"
    /\ threads' = At("connect",
                     IF g_currentMuse # NoMuse THEN "disconnect" ELSE "attach",
                     g_currentMuse, threads.connect.target)
    /\ UNCHANGED <<session, slots, sdk, last, history>>

\* g_currentMuse->disconnect()
ConnectDisconnects(device) ==
    /\ Alive
    /\ threads.connect.pc = "disconnect"
    /\ device \in Dereferenced(threads.connect.seen)
    /\ IF device = NoMuse
       THEN /\ threads' = Step("connect", "fault")
            /\ UNCHANGED running
       ELSE /\ threads' = Step("connect", "attach")
            /\ running' = Disconnected(running, device)
    /\ UNCHANGED <<session, slots, sdkMuseListener, sdkListening, muses,
                   sdkConnectionListeners, sdkDataListeners, last, history>>

\* the adapters created if absent; muse->register_connection_listener(...)
ConnectAttaches ==
    /\ Alive
    /\ threads.connect.pc = "attach"
    /\ g_connectionListener' = TRUE
    /\ g_dataListener' = TRUE
    /\ sdkConnectionListeners' = sdkConnectionListeners \cup {threads.connect.target}
    /\ threads' = Step("connect", "assign")
    /\ UNCHANGED <<g_manager, g_currentMuse, g_listener, slots, sdkMuseListener,
                   sdkListening, muses, sdkDataListeners, running, last, history>>

\* g_currentMuse = muse
ConnectAssigns ==
    /\ Alive
    /\ threads.connect.pc = "assign"
    /\ g_currentMuse' = threads.connect.target
    /\ threads' = Step("connect", "dispatch")
    /\ UNCHANGED <<g_manager, g_listener, g_connectionListener, g_dataListener,
                   slots, sdk, last, history>>

\* g_currentMuse->run_asynchronously(); return true
ConnectDispatches(device) ==
    /\ Alive
    /\ threads.connect.pc = "dispatch"
    /\ device \in Dereferenced(threads.connect.target)
    /\ IF device = NoMuse
       THEN /\ threads' = Step("connect", "fault")
            /\ UNCHANGED <<running, last>>
       ELSE /\ threads' = [threads EXCEPT !.connect = Idle]
            /\ running' = running \cup {device}
            /\ last' = Call("ConnectToMuse", DeviceName(threads.connect.target), TRUE,
                            <<>>, <<>>)
    /\ UNCHANGED <<session, slots, sdkMuseListener, sdkListening, muses,
                   sdkConnectionListeners, sdkDataListeners, history>>

\* if (g_currentMuse), in DisconnectMuse and in StopMuseManager
TeardownTests(thread) ==
    /\ Alive
    /\ threads[thread].pc = "idle"
    /\ IF g_currentMuse # NoMuse
       THEN /\ threads' = At(thread, "disconnect", g_currentMuse, NoMuse)
            /\ UNCHANGED last
       ELSE IF thread = "stop"
       THEN /\ threads' = At(thread, "release", NoMuse, NoMuse)
            /\ UNCHANGED last
       ELSE /\ last' = Call("DisconnectMuse", "", "void", <<>>, <<>>)
            /\ UNCHANGED threads
    /\ UNCHANGED <<session, slots, sdk, history>>

\* g_currentMuse->disconnect()
TeardownDisconnects(thread, device) ==
    /\ Alive
    /\ threads[thread].pc = "disconnect"
    /\ device \in Dereferenced(threads[thread].seen)
    /\ IF device = NoMuse
       THEN /\ threads' = Step(thread, "fault")
            /\ UNCHANGED running
       ELSE /\ threads' = Step(thread, "clear")
            /\ running' = Disconnected(running, device)
    /\ UNCHANGED <<session, slots, sdkMuseListener, sdkListening, muses,
                   sdkConnectionListeners, sdkDataListeners, last, history>>

\* g_currentMuse = nullptr
TeardownClears(thread) ==
    /\ Alive
    /\ threads[thread].pc = "clear"
    /\ g_currentMuse' = NoMuse
    /\ IF thread = "stop"
       THEN /\ threads' = At(thread, "release", NoMuse, NoMuse)
            /\ UNCHANGED last
       ELSE /\ threads' = [threads EXCEPT ![thread] = Idle]
            /\ last' = Call("DisconnectMuse", "", "void", <<>>, <<>>)
    /\ UNCHANGED <<g_manager, g_listener, g_connectionListener, g_dataListener,
                   slots, sdk, history>>

\* The rest of StopMuseManager: stop_listening(), the slots, the adapters,
\* the manager.
StopReleases ==
    /\ Alive
    /\ threads.stop.pc = "release"
    /\ sdkListening' = IF g_manager # NULL THEN FALSE ELSE sdkListening
    /\ g_museListChangedCallback' = NoCallback
    /\ g_connectionStateChangedCallback' = NoCallback
    /\ g_dataReceivedCallback' = NoCallback
    /\ g_listener' = FALSE
    /\ g_connectionListener' = FALSE
    /\ g_dataListener' = FALSE
    /\ g_manager' = NULL
    /\ threads' = [threads EXCEPT !.stop = Idle]
    /\ last' = Call("StopMuseManager", "", "void", <<>>, <<>>)
    /\ UNCHANGED <<g_currentMuse, sdkMuseListener, muses, sdkConnectionListeners,
                   sdkDataListeners, running, history>>

\* --------------------------------------------------------------- SDK events
\* The SDK finds the device list changed and notifies the listener it holds.
SdkMuseListChanged(snapshot, fault) ==
    /\ sdkMuseListener
    /\ snapshot \in Snapshots
    /\ muses' = snapshot
    /\ muse_list_changed(fault)

\* A device delivers a connection packet to the connection adapter it holds.
SdkConnectionPacket(state, muse, fault) ==
    /\ muse \in sdkConnectionListeners
    /\ receive_muse_connection_packet(state, muse, fault)

\* A device delivers a data packet of a kind the data adapter is registered for.
SdkDataPacket(packet, muse, fault) ==
    /\ packet.type \in sdkDataListeners[muse]
    /\ receive_muse_data_packet(packet, muse, fault)

SdkArtifactPacket(packet, muse) ==
    /\ "ARTIFACTS" \in sdkDataListeners[muse]
    /\ receive_muse_artifact_packet(packet, muse)

\* ------------------------------------------------------------ specifications
InstanceFaults == Faults({"get_instance", "set_muse_listener"})
                    \cup {[at |-> "get_instance", how |-> "null"]}
ConnectFaults == Faults({"get_muses", "get_name", "disconnect",
                         "register_connection_listener", "run_asynchronously"})

\* Spec: the whole boundary, one call at a time, with the SDK failing wherever
\* it can and delivering the events it has listeners for.  Its inputs: the two
\* first devices in discovery order, one caller function per slot, one kind of
\* data, one packet of it.
SessionSnapshots == {s \in Snapshots : \A i \in 1..Len(s) : s[i] = i /\ i <= 2}
                      \cup {<<2>>}
SessionNames == {DeviceName(1), DeviceName(2), UnknownName}
SessionIndices == {0 - 1, 0, 1, 2}
SessionCallbacks == {NoCallback, 1}
SessionTypes == {"EEG"}
SessionPackets ==
    {p \in DataPackets : p.type = "EEG" /\ \A f \in DOMAIN p.val : p.val[f] = MaxValue}

Next ==
    \/ \E fault \in InstanceFaults : GetMuseManager(fault)
    \/ \E fault \in Faults({"start_listening"}) : StartListening(fault)
    \/ \E fault \in Faults({"stop_listening"}) : StopListening(fault)
    \/ \E fault \in Faults({"get_muses"}) : GetMuseCount(fault)
    \/ \E index \in SessionIndices, fault \in Faults({"get_muses", "get_name"}) :
          GetMuseName(index, fault)
    \/ \E name \in SessionNames, fault \in ConnectFaults : ConnectToMuse(name, fault)
    \/ \E fault \in Faults({"disconnect"}) : DisconnectMuse(fault)
    \/ \E type \in SessionTypes, fault \in Faults({"register_data_listener"}) :
          RegisterDataListener(type, fault)
    \/ \E type \in SessionTypes, fault \in Faults({"unregister_data_listener"}) :
          UnregisterDataListener(type, fault)
    \/ \E callback \in SessionCallbacks : SetMuseListChangedCallback(callback)
    \/ \E callback \in SessionCallbacks : SetConnectionStateChangedCallback(callback)
    \/ \E callback \in SessionCallbacks : SetDataReceivedCallback(callback)
    \/ \E fault \in Faults({"disconnect", "stop_listening"}) : StopMuseManager(fault)
    \/ \E snapshot \in SessionSnapshots, fault \in Faults({"get_muses"}) :
          SdkMuseListChanged(snapshot, fault)
    \/ \E muse \in Devices, fault \in Faults({"get_name"}) :
          SdkConnectionPacket("CONNECTED", muse, fault)
    \/ \E packet \in SessionPackets, muse \in Devices, fault \in Faults({"get_value"}) :
          SdkDataPacket(packet, muse, fault)

Spec == Init /\ [][Next]_vars

\* SpecEnumerate: device enumeration over every snapshot and every index
\* around its ends.
Indices == (0 - 1)..(NumDevices + 1)

NextEnumerate ==
    \/ \E fault \in InstanceFaults : GetMuseManager(fault)
    \/ \E snapshot \in Snapshots, fault \in Faults({"get_muses"}) :
          SdkMuseListChanged(snapshot, fault)
    \/ \E fault \in Faults({"get_muses"}) : GetMuseCount(fault)
    \/ \E index \in Indices, fault \in Faults({"get_muses", "get_name"}) :
          GetMuseName(index, fault)
    \/ \E fault \in Faults({"stop_listening"}) : StopMuseManager(fault)

SpecEnumerate == Init /\ [][NextEnumerate]_vars

\* SpecMarshal: the data adapter fed every packet, with the data slot set,
\* replaced and cleared in between.
NextMarshal ==
    \/ \E callback \in Callbacks : SetDataReceivedCallback(callback)
    \/ \E packet \in DataPackets, fault \in Faults({"get_value"}) :
          receive_muse_data_packet(packet, 1, fault)
    \/ \E packet \in ArtifactPackets : receive_muse_artifact_packet(packet, 1)

SpecMarshal == Init /\ [][NextMarshal]_vars

\* SpecCallbacks: the three slots set, replaced and cleared with every caller
\* pointer, and each adapter fed events in between.
NextCallbacks ==
    \/ GetMuseManager(NoFault)
    \/ StopMuseManager(NoFault)
    \/ \E callback \in Callbacks : SetMuseListChangedCallback(callback)
    \/ \E callback \in Callbacks : SetConnectionStateChangedCallback(callback)
    \/ \E callback \in Callbacks : SetDataReceivedCallback(callback)
    \/ \E fault \in Faults({"get_muses"}) : SdkMuseListChanged(<<1>>, fault)
    \/ \E state \in ConnectionStates, fault \in Faults({"get_name"}) :
          receive_muse_connection_packet(state, 1, fault)
    \/ \E packet \in SessionPackets, fault \in Faults({"get_value"}) :
          receive_muse_data_packet(packet, 1, fault)
    \/ receive_muse_artifact_packet(
          [headband_on |-> TRUE, blink |-> FALSE, jaw_clench |-> TRUE], 1)

SpecCallbacks == Init /\ [][NextCallbacks]_vars

\* SpecForward: the connection and data adapters fed up to MaxEvents packets
\* from the two first devices while the log of deliveries is on, the two slots set and
\* cleared in between and the SDK's accessors failing where they can.
StartRecording ==
    /\ ~history.on
    /\ history' = [history EXCEPT !.on = TRUE]
    /\ UNCHANGED <<session, slots, sdk, last, threads>>

NextForward ==
    \/ StartRecording
    \/ \E callback \in SessionCallbacks : SetConnectionStateChangedCallback(callback)
    \/ \E callback \in SessionCallbacks : SetDataReceivedCallback(callback)
    \/ \E state \in ConnectionStates, muse \in {1, 2}, fault \in Faults({"get_name"}) :
          /\ Len(history.delivered) < MaxEvents
          /\ receive_muse_connection_packet(state, muse, fault)
    \/ \E packet \in SessionPackets, fault \in Faults({"get_value"}) :
          /\ Len(history.delivered) < MaxEvents
          /\ receive_muse_data_packet(packet, 1, fault)
    \/ /\ Len(history.delivered) < MaxEvents
       /\ receive_muse_artifact_packet(
             [headband_on |-> TRUE, blink |-> FALSE, jaw_clench |-> TRUE], 1)

SpecForward == Init /\ [][NextForward]_vars

\* SpecSlots: the delivery thread inside an adapter, read by read, while the
\* caller's thread sets, replaces and clears the slots and shuts down.
NextSlots ==
    \/ \E callback \in Callbacks : SetMuseListChangedCallback(callback)
    \/ \E callback \in Callbacks : SetConnectionStateChangedCallback(callback)
    \/ \E callback \in Callbacks : SetDataReceivedCallback(callback)
    \/ StopMuseManager(NoFault)
    \/ \E slot \in SlotNames : AdapterTestsSlot(slot)
    \/ \E pointer \in Callbacks : AdapterCallsSlot(pointer)

SpecSlots == Init /\ [][NextSlots]_vars

\* SpecSession: ConnectToMuse, DisconnectMuse and StopMuseManager on three
\* threads, interleaved read by read, over a manager with both devices found.
NextSession ==
    \/ GetMuseManager(NoFault)
    \/ SdkMuseListChanged(<<1, 2>>, NoFault)
    \/ \E name \in SessionNames : ConnectScans(name)
    \/ ConnectTests
    \/ \E device \in Devices \cup {NoMuse} : ConnectDisconnects(device)
    \/ ConnectAttaches
    \/ ConnectAssigns
    \/ \E device \in Devices \cup {NoMuse} : ConnectDispatches(device)
    \/ \E thread \in {"disconnect", "stop"} : TeardownTests(thread)
    \/ \E thread \in {"disconnect", "stop"}, device \in Devices \cup {NoMuse} :
          TeardownDisconnects(thread, device)
    \/ \E thread \in {"disconnect", "stop"} : TeardownClears(thread)
    \/ StopReleases

SpecSession == Init /\ [][NextSession]_vars

\* ===================================================================== claims
\* Positions of an SDK call in the log of the last call.
Positions(name, target) ==
    {i \in 1..Len(last.sdk) : last.sdk[i][1] = name /\ last.sdk[i][2] = target}
PositionsNext(name, target) ==
    {i \in 1..Len(last'.sdk) : last'.sdk[i][1] = name /\ last'.sdk[i][2] = target}
NoSdkFailure == \A i \in 1..Len(last.sdk) : last.sdk[i][3] = "ok"

\* C1 -- Single active connection.  In every reachable state at most one
\* device has a dispatched connection attempt that the bridge has not
\* disconnected since, and that device is g_currentMuse.  A ConnectToMuse that
\* returns true while a device is current disconnects that device before it
\* dispatches the new attempt, and the matched device is then the only one
\* running.
AtMostOneRunning ==
    /\ Cardinality(running) <= 1
    /\ running \subseteq {g_currentMuse}
    /\ (last.op = "ConnectToMuse" /\ last.ret = TRUE) =>
          /\ g_currentMuse # NoMuse
          /\ DeviceName(g_currentMuse) = last.arg
          /\ running = {g_currentMuse}

DisconnectBeforeDispatch ==
    (last'.op = "ConnectToMuse" /\ last'.ret = TRUE /\ g_currentMuse # NoMuse) =>
       \E i \in PositionsNext("disconnect", g_currentMuse) :
          \E j \in PositionsNext("run_asynchronously", g_currentMuse') : i < j

C1_SingleActiveConnection == []AtMostOneRunning /\ [][DisconnectBeforeDispatch]_vars

\* A connect to one device replaced the running connection to another.
C1_Witness ==
    /\ last.op = "ConnectToMuse"
    /\ last.ret = TRUE
    /\ \E previous \in Devices \ {g_currentMuse} :
          Positions("disconnect", previous) # {}
    /\ running = {g_currentMuse}

\* C2 -- Shutdown.  Whenever StopMuseManager has returned, the bridge is
\* Uninitialized: no manager handle, no current device, nothing running,
\* discovery stopped, the three slots empty, the three adapters released; and
\* a shutdown right after a shutdown changes nothing.
Uninitialized ==
    /\ g_manager = NULL
    /\ g_currentMuse = NoMuse
    /\ running = {}
    /\ ~sdkListening
    /\ g_museListChangedCallback = NoCallback
    /\ g_connectionStateChangedCallback = NoCallback
    /\ g_dataReceivedCallback = NoCallback
    /\ ~g_listener /\ ~g_connectionListener /\ ~g_dataListener

ShutdownEndsUninitialized == last.op = "StopMuseManager" => Uninitialized

SecondShutdownChangesNothing ==
    (last.op = "StopMuseManager" /\ last'.op = "StopMuseManager") =>
       UNCHANGED <<session, slots, sdk>>

C2_ShutdownAlwaysUninitialized ==
    []ShutdownEndsUninitialized /\ [][SecondShutdownChangesNothing]_vars

\* C3 -- Inert without a manager.  While g_manager is null, StartListening,
\* StopListening, GetMuseCount, GetMuseName and ConnectToMuse return their
\* failure value (false, nothing, 0, "", false), make no SDK call and change
\* neither the session, the slots nor anything the SDK holds.
ManagerOperations ==
    {"StartListening", "StopListening", "GetMuseCount", "GetMuseName", "ConnectToMuse"}

FailureValue(op) ==
    CASE op = "StartListening" -> FALSE
      [] op = "StopListening" -> "void"
      [] op = "GetMuseCount" -> 0
      [] op = "GetMuseName" -> EmptyString
      [] op = "ConnectToMuse" -> FALSE

FailsWithoutManager ==
    (g_manager = NULL /\ last.op \in ManagerOperations) =>
       /\ last.ret = FailureValue(last.op)
       /\ last.sdk = <<>>

UnchangedWithoutManager ==
    (g_manager = NULL /\ last'.op \in ManagerOperations) =>
       UNCHANGED <<session, slots, sdk>>

C3_InertWithoutManager == []FailsWithoutManager /\ [][UnchangedWithoutManager]_vars

\* After a shutdown that released a manager with a device in the snapshot,
\* a connect by that device's name has failed.
C3_Witness ==
    /\ g_manager = NULL
    /\ last.op = "ConnectToMuse"
    /\ muses # <<>>
    /\ last.arg = DeviceName(muses[1])
    /\ g_museListChangedCallback # NoCallback

\* C4 -- Idempotent initialize.  GetMuseManager called while a handle is held
\* returns that handle, makes no SDK call (no second get_instance, no second
\* set_muse_listener) and changes nothing; and one list-changed event of the
\* SDK calls the list-changed callback at most once.
SecondInitializeIsNoOp ==
    (g_manager # NULL /\ last'.op = "GetMuseManager") =>
       /\ last'.ret = g_manager
       /\ last'.sdk = <<>>
       /\ UNCHANGED <<session, slots, sdk>>

ListChangedAtMostOnce ==
    last.op = "muse_list_changed" =>
       /\ Len(last.cbs) <= 1
       /\ \A i \in 1..Len(last.cbs) :
             last.cbs[i] = Invocation("list", g_museListChangedCallback, <<>>)

C4_InitializeIdempotent ==
    [][SecondInitializeIsNoOp]_vars /\ []ListChangedAtMostOnce

\* A second initialize has returned the handle of the first.
C4_Witness ==
    /\ last.op = "GetMuseManager"
    /\ last.ret = MANAGER
    /\ last.sdk = <<>>
    /\ sdkMuseListener

\* C5 -- Marshaling.  Every call of the data callback carries a buffer of
\* length 6.  A data packet is tagged with its own kind and fills, from
\* position 0: ACCELEROMETER x, y, z; BATTERY charge, millivolts, temperature;
\* EEG the four channels, aux left, aux right; every other kind nothing.  An
\* artifact packet is tagged ARTIFACTS and fills positions 0-2 with
\* headband_on, blink, jaw_clench as 1 or 0.  Every other position is 0.
DocumentedLayout(tag) ==
    CASE tag = "ACCELEROMETER" -> <<"X", "Y", "Z">>
      [] tag = "BATTERY" ->
           <<"CHARGE_PERCENTAGE_REMAINING", "MILLIVOLTS", "TEMPERATURE_CELSIUS">>
      [] tag = "EEG" -> <<"EEG1", "EEG2", "EEG3", "EEG4", "AUX_LEFT", "AUX_RIGHT">>
      [] OTHER -> <<>>

DataPacketLayout ==
    (last.op = "receive_muse_data_packet" /\ last.cbs # <<>>) =>
       LET packet == last.arg[1]
           args == last.cbs[1].args
           layout == DocumentedLayout(packet.type)
       IN /\ args[1] = packet.type
          /\ args[3] = 6
          /\ DOMAIN args[2] = 1..6
          /\ \A position \in 0..5 :
                Slot(args[2], position) =
                   IF position < Len(layout) THEN packet.val[layout[position + 1]]
                   ELSE 0

ArtifactPacketLayout ==
    (last.op = "receive_muse_artifact_packet" /\ last.cbs # <<>>) =>
       LET packet == last.arg[1]
           args == last.cbs[1].args
       IN /\ args[1] = "ARTIFACTS"
          /\ args[3] = 6
          /\ DOMAIN args[2] = 1..6
          /\ Slot(args[2], 0) = (IF packet.headband_on THEN 1 ELSE 0)
          /\ Slot(args[2], 1) = (IF packet.blink THEN 1 ELSE 0)
          /\ Slot(args[2], 2) = (IF packet.jaw_clench THEN 1 ELSE 0)
          /\ \A position \in 3..5 : Slot(args[2], position) = 0

C5_MarshalingLayout == DataPacketLayout /\ ArtifactPacketLayout

\* An accelerometer packet whose x and y differ has reached the callback.
C5_Witness ==
    /\ last.op = "receive_muse_data_packet"
    /\ last.cbs # <<>>
    /\ last.arg[1].type = "ACCELEROMETER"
    /\ last.arg[1].val["X"] # last.arg[1].val["Y"]

\* C6 -- Callback registry.  An event delivered to an adapter calls at most
\* once, and only through the pointer its slot holds; an empty slot means no
\* call (and, for data and artifact events, no accessor call either); and a
\* set_* call leaves exactly its argument in the slot, so a replaced pointer
\* is never called again.
AdapterCalls ==
    {"muse_list_changed", "receive_muse_connection_packet",
     "receive_muse_data_packet", "receive_muse_artifact_packet"}

SlotNameOf(op) ==
    CASE op = "muse_list_changed" -> "list"
      [] op = "receive_muse_connection_packet" -> "connection"
      [] OTHER -> "data"

SlotValueOf(op) ==
    CASE op = "muse_list_changed" -> g_museListChangedCallback
      [] op = "receive_muse_connection_packet" -> g_connectionStateChangedCallback
      [] OTHER -> g_dataReceivedCallback

InvokesStoredPointerOnce ==
    last.op \in AdapterCalls =>
       /\ Len(last.cbs) <= 1
       /\ \A i \in 1..Len(last.cbs) :
             /\ last.cbs[i].slot = SlotNameOf(last.op)
             /\ last.cbs[i].ptr = SlotValueOf(last.op)
             /\ last.cbs[i].ptr # NoCallback
       /\ SlotValueOf(last.op) = NoCallback =>
             /\ last.cbs = <<>>
             /\ SlotNameOf(last.op) = "data" => last.sdk = <<>>

SetStoresPointer ==
    /\ last'.op = "SetMuseListChangedCallback" =>
          g_museListChangedCallback' = last'.arg
    /\ last'.op = "SetConnectionStateChangedCallback" =>
          g_connectionStateChangedCallback' = last'.arg
    /\ last'.op = "SetDataReceivedCallback" =>
          g_dataReceivedCallback' = last'.arg

C6_CallbackRegistry == []InvokesStoredPointerOnce /\ [][SetStoresPointer]_vars

\* A connection packet has been forwarded through the second pointer.
C6_Witness ==
    /\ last.op = "receive_muse_connection_packet"
    /\ Len(last.cbs) = 1
    /\ last.cbs[1].ptr = NumCallbacks
    /\ g_dataReceivedCallback = NoCallback

\* C7 -- Connect to an unknown name.  ConnectToMuse(name), when no device of
\* the snapshot is named name, returns false, calls nothing of the SDK beyond
\* reading the snapshot and the names, and changes neither the session, the
\* slots nor anything the SDK holds.
NoDeviceNamed(name) == \A i \in 1..Len(muses) : DeviceName(muses[i]) # name

UnknownNameFails ==
    (last.op = "ConnectToMuse" /\ NoDeviceNamed(last.arg)) =>
       /\ last.ret = FALSE
       /\ \A i \in 1..Len(last.sdk) : last.sdk[i][1] \in {"get_muses", "get_name"}

UnknownNameChangesNothing ==
    (last'.op = "ConnectToMuse" /\ NoDeviceNamed(last'.arg)) =>
       UNCHANGED <<session, slots, sdk>>

C7_ConnectUnknownName == []UnknownNameFails /\ [][UnknownNameChangesNothing]_vars

\* A connect by an unknown name has failed while another connection was running.
C7_Witness ==
    /\ last.op = "ConnectToMuse"
    /\ muses # <<>>
    /\ NoDeviceNamed(last.arg)
    /\ Len(last.sdk) = 1 + Len(muses)
    /\ g_currentMuse # NoMuse
    /\ running = {g_currentMuse}

\* C8 -- Data registration needs a connection.  RegisterDataListener and
\* UnregisterDataListener with no current device return false and make no
\* SDK call; with a current device and no SDK failure they return true, make
\* their one SDK call on that device and add (remove) the kind there; in
\* either case nothing else changes, no other device's registrations included.
RegistrationCalls == {"RegisterDataListener", "UnregisterDataListener"}

SdkNameOf(op) ==
    IF op = "RegisterDataListener" THEN "register_data_listener"
    ELSE "unregister_data_listener"

RegistrationNeedsConnection ==
    last.op \in RegistrationCalls =>
       /\ g_currentMuse = NoMuse => (last.ret = FALSE /\ last.sdk = <<>>)
       /\ (g_currentMuse # NoMuse /\ NoSdkFailure) =>
             /\ last.ret = TRUE
             /\ last.sdk = <<SdkCall(SdkNameOf(last.op), g_currentMuse)>>
             /\ (last.arg \in sdkDataListeners[g_currentMuse])
                   <=> (last.op = "RegisterDataListener")

RegistrationOnCurrentOnly ==
    last'.op \in RegistrationCalls =>
       /\ UNCHANGED <<session, slots, sdkMuseListener, sdkListening, muses,
                      sdkConnectionListeners, running>>
       /\ \A d \in Devices \ {g_currentMuse} :
             sdkDataListeners'[d] = sdkDataListeners[d]
       /\ last'.ret = FALSE => UNCHANGED sdkDataListeners

C8_RegistrationNeedsConnection ==
    []RegistrationNeedsConnection /\ [][RegistrationOnCurrentOnly]_vars

\* A kind was registered on the current device while the other device,
\* connected before, holds none.
C8_Witness ==
    /\ last.op = "RegisterDataListener"
    /\ last.ret = TRUE
    /\ sdkConnectionListeners = Devices
    /\ \A d \in Devices : sdkDataListeners[d] # {} <=> d = g_currentMuse

\* C9 -- Disconnect.  Whenever DisconnectMuse has returned there is no
\* current device and nothing running, so a RegisterDataListener right after
\* it returns false; and DisconnectMuse with no current device makes no SDK
\* call and changes nothing.
DisconnectLeavesNoConnection ==
    last.op = "DisconnectMuse" => (g_currentMuse = NoMuse /\ running = {})

RegisterAfterDisconnectFails ==
    (last.op = "DisconnectMuse" /\ last'.op = "RegisterDataListener") =>
       last'.ret = FALSE

IdleDisconnectIsNoOp ==
    (g_currentMuse = NoMuse /\ last'.op = "DisconnectMuse") =>
       (last'.sdk = <<>> /\ UNCHANGED <<session, slots, sdk>>)

C9_DisconnectAlwaysDisconnects ==
    /\ []DisconnectLeavesNoConnection
    /\ [][RegisterAfterDisconnectFails /\ IdleDisconnectIsNoOp]_vars

\* C10 -- Bounds of GetMuseName.  When GetMuseName(index) has read the
\* snapshot, it returns "" if index < 0 or index >= the snapshot's length,
\* without asking any device for its name; otherwise, the SDK not failing, it
\* returns the name of the device at that position.
SnapshotRead ==
    /\ last.sdk # <<>>
    /\ last.sdk[1] = SdkCall("get_muses", OnManager)

C10_NameBoundsChecked ==
    (last.op = "GetMuseName" /\ SnapshotRead) =>
       IF last.arg < 0 \/ last.arg >= Len(muses)
       THEN last.ret = EmptyString /\ Len(last.sdk) = 1
       ELSE NoSdkFailure => last.ret = DeviceName(muses[last.arg + 1])

\* The name at index = count was asked of a full snapshot.
C10_Witness ==
    /\ last.op = "GetMuseName"
    /\ SnapshotRead
    /\ Len(muses) = NumDevices
    /\ last.arg = Len(muses)
    /\ last.ret = EmptyString

\* C11 -- Failure containment.  No call of an exported entry point ends in a
\* throw, whichever of its SDK calls fails and however (null result,
\* std::exception, any other object); and a call in which an SDK call failed
\* returns the entry point's failure value: null for GetMuseManager, false for
\* StartListening, ConnectToMuse, RegisterDataListener and
\* UnregisterDataListener, 0 for GetMuseCount, "" for GetMuseName, a plain
\* return for StopListening, DisconnectMuse and StopMuseManager.
EntryPoints ==
    {"GetMuseManager", "StartListening", "StopListening", "GetMuseCount",
     "GetMuseName", "ConnectToMuse", "DisconnectMuse", "RegisterDataListener",
     "UnregisterDataListener", "StopMuseManager"}

Sentinel(op) ==
    CASE op = "GetMuseManager" -> NULL
      [] op \in {"StartListening", "ConnectToMuse", "RegisterDataListener",
                 "UnregisterDataListener"} -> FALSE
      [] op = "GetMuseCount" -> 0
      [] op = "GetMuseName" -> EmptyString
      [] OTHER -> "void"

C11_FailureContained ==
    last.op \in EntryPoints =>
       /\ ~last.escaped
       /\ ~NoSdkFailure => last.ret = Sentinel(last.op)

\* A connect has returned false after run_asynchronously threw.
C11_Witness ==
    /\ last.op = "ConnectToMuse"
    /\ last.ret = FALSE
    /\ \E i \in 1..Len(last.sdk) :
          last.sdk[i][1] = "run_asynchronously" /\ last.sdk[i][3] = "threw"

\* C12 -- Best-effort replacement.  When ConnectToMuse has found its device
\* and the disconnect of the previous device failed, the call still returns
\* true with the matched device current, holding the connection adapter, and
\* its attempt dispatched.
DisconnectFailedInConnect ==
    /\ last.op = "ConnectToMuse"
    /\ \E i \in 1..Len(last.sdk) :
          last.sdk[i][1] = "disconnect" /\ last.sdk[i][3] = "threw"

C12_ReplacementSurvivesFailedDisconnect ==
    DisconnectFailedInConnect =>
       /\ last.ret = TRUE
       /\ g_currentMuse # NoMuse
       /\ DeviceName(g_currentMuse) = last.arg
       /\ g_currentMuse \in sdkConnectionListeners
       /\ g_currentMuse \in running

\* C13 -- Failed initialize.  Whenever GetMuseManager has returned null no
\* manager handle is held; a held handle always has the list-changed adapter
\* attached; and a GetMuseManager right after a failed one calls the SDK
\* again instead of returning a held handle.
FailedInitializeHoldsNothing ==
    (last.op = "GetMuseManager" /\ last.ret = NULL) => g_manager = NULL

HeldManagerHasListener == g_manager # NULL => sdkMuseListener

RetryCreatesAgain ==
    (last.op = "GetMuseManager" /\ last.ret = NULL /\ last'.op = "GetMuseManager") =>
       last'.sdk # <<>>

C13_FailedInitializeUninitialized ==
    /\ []FailedInitializeHoldsNothing
    /\ []HeldManagerHasListener
    /\ [][RetryCreatesAgain]_vars

\* C16 -- Teardown detaches.  When DisconnectMuse, StopMuseManager or a
\* ConnectToMuse to another device ends the connection to a device, neither
\* the connection adapter nor the data adapter stays registered on that device
\* (no kind stays subscribed); so a successful connect finds its device with
\* no kind subscribed.
Detached(connectionListeners, dataListeners, muse) ==
    muse \notin connectionListeners /\ dataListeners[muse] = {}

TeardownDetaches ==
    (g_currentMuse # NoMuse /\ g_currentMuse' # g_currentMuse) =>
       Detached(sdkConnectionListeners', sdkDataListeners', g_currentMuse)

ConnectStartsUnsubscribed ==
    (last'.op = "ConnectToMuse" /\ last'.ret = TRUE) =>
       sdkDataListeners'[g_currentMuse'] = {}

C16_TeardownDetachesListeners ==
    [][TeardownDetaches /\ ConnectStartsUnsubscribed]_vars

\* C17 -- Adapters before dispatch.  In a ConnectToMuse that returns true, the
\* connection adapter is registered on the matched device before
\* run_asynchronously is called on it and the data adapter exists by then;
\* the call itself registers the data adapter for no kind, that being left to
\* RegisterDataListener.
ConnectionAdapterBeforeDispatch ==
    (last.op = "ConnectToMuse" /\ last.ret = TRUE) =>
       /\ g_connectionListener /\ g_dataListener
       /\ g_currentMuse \in sdkConnectionListeners
       /\ \E j \in Positions("run_asynchronously", g_currentMuse) :
             \E i \in Positions("register_connection_listener", g_currentMuse) : i < j
       /\ Positions("register_data_listener", g_currentMuse) = {}

ConnectLeavesSubscriptions == last'.op = "ConnectToMuse" => UNCHANGED sdkDataListeners

ConnectionCalls ==
    {"ConnectToMuse", "DisconnectMuse", "RegisterDataListener",
     "UnregisterDataListener"}

DiscoveryCalls == {"StartListening", "StopListening", "StopMuseManager"}

DiscoveryUntouchedByConnection ==
    last'.op \in ConnectionCalls =>
       /\ sdkListening' = sdkListening
       /\ \A i \in 1..Len(last'.sdk) :
             last'.sdk[i][1] \notin {"start_listening", "stop_listening"}

DiscoveryChangedByDiscoveryCalls ==
    sdkListening' # sdkListening => last'.op \in DiscoveryCalls

RestartReissues ==
    (sdkListening /\ g_manager # NULL /\ last'.op = "StartListening") =>
       /\ Len(last'.sdk) = 1
       /\ last'.sdk[1][1] = "start_listening"
       /\ last'.sdk[1][3] = "ok" => (last'.ret = TRUE /\ sdkListening')

C19_DiscoveryIndependent ==
    [][DiscoveryUntouchedByConnection /\ DiscoveryChangedByDiscoveryCalls
         /\ RestartReissues]_vars

\* A second StartListening has returned true while a device is connected.
C19_Witness ==
    /\ last.op = "StartListening"
    /\ last.ret = TRUE
    /\ sdkListening
    /\ g_currentMuse # NoMuse
    /\ running = {g_currentMuse}

\* C20 -- What a current device implies.  Whenever g_currentMuse is set, so
\* are g_manager, g_connectionListener and g_dataListener; hence the guard of
\* RegisterDataListener / UnregisterDataListener is true exactly when there
\* is no current device, and, the SDK not failing, they return true exactly
\* when there is one.
CurrentMuseImpliesAdapters ==
    g_currentMuse # NoMuse =>
       (g_manager # NULL /\ g_connectionListener /\ g_dataListener)

DataAdapterTestRedundant ==
    NoDataTarget(g_currentMuse, g_dataListener) <=> g_currentMuse = NoMuse

RegistrationDependsOnConnection ==
    (last.op \in {"RegisterDataListener", "UnregisterDataListener"} /\ NoSdkFailure) =>
       (last.ret = TRUE <=> g_currentMuse # NoMuse)

C20_CurrentMuseImpliesAdapters ==
    CurrentMuseImpliesAdapters /\ DataAdapterTestRedundant
       /\ RegistrationDependsOnConnection

\* A shutdown whose disconnect threw has left the device current.
C20_Witness ==
    /\ last.op = "StopMuseManager"
    /\ ~NoSdkFailure
    /\ g_currentMuse # NoMuse
    /\ g_dataListener

\* C18 -- Forwarding in order.  For each of the two categories, the calls
\* made through the slot are, in order, one per packet delivered while the
\* slot was set and the SDK's accessors did not fail: a connection packet
\* gives its state code and the name of the device that sent it, a data or
\* artifact packet its tag and its buffer of 6; nothing is called twice, out
\* of order, or left out.
ExpectedCall(delivery) ==
    IF delivery.ptr = NoCallback
          \/ \E i \in 1..Len(delivery.sdk) : delivery.sdk[i][3] # "ok"
    THEN <<>>
    ELSE IF delivery.op = "receive_muse_connection_packet"
    THEN <<Invocation("connection", delivery.ptr,
                      <<delivery.arg[1], DeviceName(delivery.arg[2])>>)>>
    ELSE IF delivery.op = "receive_muse_data_packet"
    THEN <<Invocation("data", delivery.ptr,
                      <<delivery.arg[1].type,
                        [p \in 1..6 |->
                           LET layout == DocumentedLayout(delivery.arg[1].type)
                           IN IF p <= Len(layout) THEN delivery.arg[1].val[layout[p]]
                              ELSE 0],
                        6>>)>>
    ELSE <<Invocation("data", delivery.ptr,
                      <<"ARTIFACTS",
                        <<IF delivery.arg[1].headband_on THEN 1 ELSE 0,
                          IF delivery.arg[1].blink THEN 1 ELSE 0,
                          IF delivery.arg[1].jaw_clench THEN 1 ELSE 0, 0, 0, 0>>,
                        6>>)>>

RECURSIVE ExpectedCalls(_, _)
ExpectedCalls(delivered, slot) ==
    IF delivered = <<>> THEN <<>>
    ELSE LET call == ExpectedCall(Head(delivered))
         IN (IF call # <<>> /\ call[1].slot = slot THEN call ELSE <<>>)
               \o ExpectedCalls(Tail(delivered), slot)

CallsThrough(slot) ==
    LET OfSlot(invocation) == invocation.slot = slot
    IN SelectSeq(history.invoked, OfSlot)

C18_ForwardedInOrder ==
    history.on =>
       /\ CallsThrough("connection") = ExpectedCalls(history.delivered, "connection")
       /\ CallsThrough("data") = ExpectedCalls(history.delivered, "data")

\* Three connection packets, of two devices and two states, were forwarded.
C18_Witness ==
    /\ history.on
    /\ Len(history.delivered) = 3
    /\ Len(CallsThrough("connection")) = 3
    /\ history.delivered[1].arg # history.delivered[2].arg
    /\ history.delivered[2].arg[1] # history.delivered[3].arg[1]
    /\ history.delivered[2].arg[2] # history.delivered[3].arg[2]

\* C14 -- Slots across threads.  With the delivery thread inside an adapter
\* and the caller's thread clearing the slot (a setter given null, or
\* StopMuseManager) at any point between the adapter's test of the slot and
\* its call through it, no adapter ever calls through a null pointer.
C14_NeverCallsNullSlot ==
    \A i \in 1..Len(last.cbs) : last.cbs[i].ptr # NoCallback

\* C15 -- Session calls serialized.  With ConnectToMuse, DisconnectMuse and
\* StopMuseManager on different threads, whenever none of them is inside its
\* call every device with a dispatched attempt and no disconnect since is
\* g_currentMuse, and no call ever goes through a g_currentMuse that another
\* thread has cleared.
AtRest == \A t \in CallerThreads : threads[t].pc = "idle"

ConsistentAtRest == AtRest => running \subseteq {g_currentMuse}

NoClearedDereference == \A t \in CallerThreads : threads[t].pc # "fault"

C15_SessionCallsSerialized == ConsistentAtRest /\ NoClearedDereference
====
